---------------------------- MODULE Spec2Model ----------------------------
(***************************************************************************)
(* A model of makesnapshots.py: one run of the script for one period.      *)
(* The script is sequential; pc is its position.  The provider (EC2, SNS)  *)
(* is the environment: every provider call either returns a value drawn    *)
(* from a small set or raises.                                             *)
(*                                                                         *)
(* Strings the script inspects with startswith() are sequences of          *)
(* characters, so that a prefix test is computed and not assumed.          *)
(***************************************************************************)
EXTENDS Integers, Sequences, FiniteSets, TLC

\* ------------------------------------------------------------------ bounds
\* volumes returned by get_all_volumes: 0..MaxVols
MaxVols == 2
\* snapshots of the listed volumes that exist before the run, over all the
\* volumes: 0..MaxSnaps
MaxSnaps == 2
\* start times of the snapshots that exist before the run: 1..MaxTime
MaxTime == 2
\* configured keep-counts: 0..MaxKeep (or absent)
MaxKeep == 1

\* ------------------------------------------------------------------ strings
S_hour == <<"h", "o", "u", "r">>
S_day == <<"d", "a", "y">>
S_week == <<"w", "e", "e", "k">>
S_month == <<"m", "o", "n", "t", "h">>
S_daily == <<"d", "a", "i", "l", "y">>
S_ly == <<"l", "y">>
S_aws == <<"a", "w", "s", ":">>

\* str.startswith(prefix)
StartsWith(s, prefix) ==
    /\ Len(prefix) <= Len(s)
    /\ SubSeq(s, 1, Len(prefix)) = prefix

\* choices=('hour', 'day', 'week', 'month')
Periods == {S_hour, S_day, S_week, S_month}

\* frequency = 'daily' if args.period == 'day' else args.period + 'ly'
Frequency(p) == IF p = S_day THEN S_daily ELSE p \o S_ly

\* config.get('keep_' + args.period): <<k>> when the key is set to k,
\* None when the key is absent
None == <<>>

\* A description is its leading word (all that startswith() looks at) and
\* whether the rest holds the text 'taken by the snapshot script'.
\* '%(frequency)s snapshot for %(vol_id)s taken by the snapshot script at ...'
Description(p) == [word |-> Frequency(p), script |-> TRUE]

\* Descriptions of the snapshots that exist before the run: 'hourly ...' and
\* 'daily ...' snapshots made by earlier runs, a 'day ...' snapshot in the
\* legacy form, and a third-party 'weekly backup' that the script did not
\* make.
Descriptions ==
    {Description(S_hour), Description(S_day),
     [word |-> S_day, script |-> TRUE],
     [word |-> Frequency(S_week), script |-> FALSE]}

\* ------------------------------------------------------------------ tags
K_aws == S_aws \o <<"c", "f">>
K_name == <<"N", "a", "m", "e">>
K_env == <<"e", "n", "v">>

Restrict(f, S) == [k \in S |-> f[k]]
EmptyTags == [k \in {} |-> "a"]

\* What conn.get_all_tags may return for a volume: name -> value
VolumeTagSets ==
    {EmptyTags,
     [k \in {K_aws, K_name} |-> "a"],
     [k \in {K_name, K_env} |-> IF k = K_name THEN "a" ELSE "b"]}

\* The tags a snapshot carries when create_snapshot returns it
SnapshotTagSets ==
    {EmptyTags,
     [k \in {K_name} |-> "a"],
     [k \in {K_name, K_aws} |-> "b"]}

\* get_resource_tags as it would be without the test on the reserved
\* prefix: every tag of the volume is copied
get_resource_tags_Unfiltered(tags) == tags

\* get_resource_tags: the tags whose name does not start with 'aws:'
get_resource_tags(tags) ==
    Restrict(tags, {k \in DOMAIN tags : ~StartsWith(k, S_aws)})

\* set_resource_tags: the test that guards resource.add_tag
NeedsTag(resource_tags, tags, k) ==
    IF k \notin DOMAIN resource_tags THEN TRUE
    ELSE resource_tags[k] # tags[k]

\* resource.add_tag(key, value) as seen on resource.tags
AddTag(resource_tags, k, v) ==
    [x \in DOMAIN resource_tags \cup {k} |->
        IF x = k THEN v ELSE resource_tags[x]]

\* ------------------------------------------------------------------ snapshots
Range(s) == {s[i] : i \in DOMAIN s}

\* start_time of a snapshot created during the run: later than every
\* snapshot that existed before
Now == MaxTime + 1

NoSnap == [id |-> 0]

\* A snapshot as vol.snapshots() returns it; the script reads no tag of a
\* snapshot once the inner try statement is left, and the model keeps none
Listed(snap) ==
    [id |-> snap.id, description |-> snap.description,
     start_time |-> snap.start_time]

\* The volume's older snapshots as the provider holds them, ids 1..n
Existing ==
    UNION {[1..n -> [description : Descriptions, start_time : 1..MaxTime]]
              : n \in 0..MaxSnaps}

WithIds(pre) ==
    [i \in DOMAIN pre |->
        [id |-> i, description |-> pre[i].description,
         start_time |-> pre[i].start_time]]

Reverse(s) == [i \in DOMAIN s |-> s[Len(s) + 1 - i]]

\* vol.snapshots(): the older snapshots and the one just created, in
\* ascending or descending id order (the provider promises no order)
Listing(pre, new, order) ==
    LET all == WithIds(pre) \o new
    IN  IF order = "desc" THEN Reverse(all) ELSE all

\* the if/elif chain that fills deletelist
InDeletelist(desc, p) ==
    \/ StartsWith(desc.word, S_hour) /\ p = S_hour
    \/ StartsWith(desc.word, S_week) /\ p = S_week
    \/ StartsWith(desc.word, S_day)
    \/ StartsWith(desc.word, S_daily) /\ p = S_day
    \/ StartsWith(desc.word, S_month) /\ p = S_month

Classify(snaps, p) ==
    LET Test(s) == InDeletelist(s.description, p)
    IN  SelectSeq(snaps, Test)

\* list.sort(key=...) is stable: an element goes after the elements whose
\* key is smaller or equal
RECURSIVE Insert(_, _)
Insert(sorted, x) ==
    IF sorted = <<>> THEN <<x>>
    ELSE IF Head(sorted).start_time <= x.start_time
         THEN <<Head(sorted)>> \o Insert(Tail(sorted), x)
         ELSE <<x>> \o sorted

RECURSIVE SortByStartTime(_)
SortByStartTime(l) ==
    IF l = <<>> THEN <<>>
    ELSE Insert(SortByStartTime(SubSeq(l, 1, Len(l) - 1)), l[Len(l)])

\* Cut as it would be with the slice taken from the wrong end of the list
\* (deletelist[-delta:])
Cut_FromNewest(l, k) ==
    LET delta == Len(l) - k
    IN  IF delta > 0 THEN SubSeq(l, Len(l) - delta + 1, Len(l)) ELSE <<>>

\* Cut as it would be with the slice bounded by keep instead of delta
\* (deletelist[:keep])
Cut_FirstKeep(l, k) ==
    LET delta == Len(l) - k
    IN  IF delta > 0 THEN SubSeq(l, 1, IF k <= Len(l) THEN k ELSE Len(l))
        ELSE <<>>

\* delta = len(deletelist) - keep; deletelist[:delta] if delta > 0 else []
Cut(l, k) ==
    LET delta == Len(l) - k
    IN  IF delta > 0 THEN SubSeq(l, 1, delta) ELSE <<>>

\* ------------------------------------------------------------------ state
VARIABLES
    period,         \* args.period
    keep_cfg,       \* config.get('keep_' + args.period)
    sns_arn,        \* config.get('arn') is set
    pc,             \* position in the script
    vols,           \* result of conn.get_all_volumes
    idx,            \* position of the for loop in vols
    count_total, count_success, count_errors,
    total_created, total_deleted,
    sns_err_msg,    \* the lines of sns_err_msg
    volume_tags,    \* provider: the tags conn.get_all_tags returned for vol
    tags_volume,    \* tags_volume
    current_snap,   \* current_snap, with its tags
    todo,           \* keys set_resource_tags has still to visit
    snapshots,      \* snapshots
    deletelist,     \* deletelist
    di,             \* position of the delete loop in deletelist
    deleted,        \* provider: snapshots of the volume deleted so far
    published,      \* provider: messages published to SNS
    exit_status,    \* exit status of the process: "running", "0" or "1"
    create_called,  \* volumes whose create_snapshot was called
    created,        \* volumes whose create_snapshot returned a snapshot
    inner_failed,   \* volumes whose create_snapshot or add_tag raised
    raised,         \* volumes whose processing raised out of the try body
    deletes,        \* provider: how many snap.delete() calls returned
    unlisted        \* provider: how many of the snapshots that existed
                    \* before the run belong to volumes not listed yet

vars == <<period, keep_cfg, sns_arn, pc, vols, idx, count_total,
          count_success, count_errors, total_created, total_deleted,
          sns_err_msg, volume_tags, tags_volume, current_snap, todo,
          snapshots, deletelist, di, deleted, published, exit_status,
          create_called, created, inner_failed, raised, deletes, unlisted>>

config == <<period, keep_cfg, sns_arn>>
counters == <<count_total, count_success, count_errors, total_created,
              total_deleted>>
tagging == <<volume_tags, tags_volume, current_snap, todo>>
pruning == <<snapshots, deletelist, di, deleted>>
history == <<create_called, created, inner_failed, raised, deletes>>
\* every action but Snapshots leaves unlisted alone
others == <<config, unlisted>>

vol == vols[idx]

Init ==
    /\ period \in Periods
    /\ keep_cfg \in {None} \cup {<<k>> : k \in 0..MaxKeep}
    /\ sns_arn \in BOOLEAN
    /\ pc = "get_all_volumes"
    /\ vols = <<>>
    /\ idx = 0
    /\ count_total = 0 /\ count_success = 0 /\ count_errors = 0
    /\ total_created = 0 /\ total_deleted = 0
    /\ sns_err_msg = <<>>
    /\ volume_tags = EmptyTags
    /\ tags_volume = EmptyTags
    /\ current_snap = NoSnap
    /\ todo = {}
    /\ snapshots = <<>>
    /\ deletelist = <<>>
    /\ di = 0
    /\ deleted = <<>>
    /\ published = <<>>
    /\ exit_status = "running"
    /\ create_called = {}
    /\ created = {}
    /\ inner_failed = {}
    /\ raised = {}
    /\ deletes = 0
    /\ unlisted = MaxSnaps

\* ------------------------------------------------------------------ the run
\* vols = conn.get_all_volumes(filters=...)
VolumeLists == {[i \in 1..n |-> i] : n \in 0..MaxVols}

GetAllVolumes ==
    /\ pc = "get_all_volumes"
    /\ vols' \in VolumeLists
    /\ pc' = "for_vol"
    /\ UNCHANGED <<others, idx, counters, sns_err_msg, tagging, pruning,
                   published, exit_status, history>>

\* get_all_volumes raises: nothing catches it, the interpreter prints the
\* traceback and exits with status 1
GetAllVolumesRaises ==
    /\ pc = "get_all_volumes"
    /\ pc' = "crashed"
    /\ exit_status' = "1"
    /\ UNCHANGED <<others, vols, idx, counters, sns_err_msg, tagging,
                   pruning, published, history>>

\* What the script holds about the volume at hand (tags_volume,
\* current_snap, snapshots, deletelist) is assigned again before it is read
\* in the next turn of the loop, and deleted is the provider's record for
\* the volume at hand: the model forgets them when the turn ends.
EndOfTurn ==
    /\ volume_tags' = EmptyTags
    /\ tags_volume' = EmptyTags
    /\ current_snap' = NoSnap
    /\ todo' = {}
    /\ snapshots' = <<>>
    /\ deletelist' = <<>>
    /\ di' = 0
    /\ deleted' = <<>>

\* for vol in vols: try: count_total += 1
ForVol ==
    /\ pc = "for_vol"
    /\ idx < Len(vols)
    /\ idx' = idx + 1
    /\ count_total' = count_total + 1
    /\ pc' = "get_resource_tags"
    /\ UNCHANGED <<others, vols, count_success, count_errors, total_created,
                   total_deleted, sns_err_msg, tagging, pruning, published,
                   exit_status, history>>

\* the loop is exhausted
ForVolEnd ==
    /\ pc = "for_vol"
    /\ idx = Len(vols)
    /\ pc' = "report"
    /\ UNCHANGED <<others, vols, idx, counters, sns_err_msg, tagging,
                   pruning, published, exit_status, history>>

\* tags_volume = get_resource_tags(vol.id)
GetResourceTags ==
    /\ pc = "get_resource_tags"
    /\ \E tags \in VolumeTagSets :
          /\ volume_tags' = tags
          /\ tags_volume' = get_resource_tags(tags)
    /\ pc' = "create_snapshot"
    /\ UNCHANGED <<others, vols, idx, counters, sns_err_msg, current_snap,
                   todo, pruning, published, exit_status, history>>

\* conn.get_all_tags raises
GetResourceTagsRaises ==
    /\ pc = "get_resource_tags"
    /\ raised' = raised \cup {vol}
    /\ pc' = "except"
    /\ UNCHANGED <<others, vols, idx, counters, sns_err_msg, tagging,
                   pruning, published, exit_status, create_called, created,
                   inner_failed, deletes>>

\* current_snap = vol.create_snapshot(description)
CreateSnapshot ==
    /\ pc = "create_snapshot"
    /\ \E tags \in SnapshotTagSets :
          current_snap' = [id |-> MaxSnaps + 1,
                           description |-> Description(period),
                           start_time |-> Now,
                           tags |-> tags]
    /\ todo' = DOMAIN tags_volume
    /\ create_called' = create_called \cup {vol}
    /\ created' = created \cup {vol}
    /\ pc' = "set_resource_tags"
    /\ UNCHANGED <<others, vols, idx, counters, sns_err_msg, volume_tags,
                   tags_volume, pruning, published, exit_status,
                   inner_failed, raised, deletes>>

\* AfterInnerExcept as it would be without the inner try statement: the
\* error reaches the handler of the volume
AfterInnerExcept_Outer == "except"

\* The inner handler, except Exception, e: logger.error(e), falls through
\* to the statement after the inner try
AfterInnerExcept == "snapshots"

\* create_snapshot raises: the inner handler logs it, the script goes on
\* with vol.snapshots()
CreateSnapshotRaises ==
    /\ pc = "create_snapshot"
    /\ create_called' = create_called \cup {vol}
    /\ inner_failed' = inner_failed \cup {vol}
    /\ pc' = AfterInnerExcept
    /\ volume_tags' = EmptyTags
    /\ tags_volume' = EmptyTags
    /\ UNCHANGED <<others, vols, idx, counters, sns_err_msg, current_snap,
                   todo, pruning, published, exit_status, created, raised,
                   deletes>>

\* set_resource_tags: one turn of the loop over tags.iteritems(), the
\* add_tag call succeeding when it is made
SetResourceTag ==
    /\ pc = "set_resource_tags"
    /\ \E k \in todo :
          /\ todo' = todo \ {k}
          /\ current_snap' =
                IF NeedsTag(current_snap.tags, tags_volume, k)
                THEN [current_snap EXCEPT
                        !.tags = AddTag(@, k, tags_volume[k])]
                ELSE current_snap
    /\ UNCHANGED <<others, vols, idx, counters, sns_err_msg, volume_tags,
                   tags_volume, pruning, published, exit_status, history,
                   pc>>

\* resource.add_tag raises: set_resource_tags is left, the inner handler
\* logs the error
AddTagRaises ==
    /\ pc = "set_resource_tags"
    /\ \E k \in todo : NeedsTag(current_snap.tags, tags_volume, k)
    /\ inner_failed' = inner_failed \cup {vol}
    /\ pc' = AfterInnerExcept
    /\ volume_tags' = EmptyTags
    /\ tags_volume' = EmptyTags
    /\ current_snap' = Listed(current_snap)
    /\ todo' = {}
    /\ UNCHANGED <<others, vols, idx, counters, sns_err_msg, pruning,
                   published, exit_status, create_called, created, raised,
                   deletes>>

\* set_resource_tags returned: logger.info(...); total_created += 1
SnapshotCreated ==
    /\ pc = "set_resource_tags"
    /\ todo = {}
    /\ total_created' = total_created + 1
    /\ pc' = "snapshots"
    /\ volume_tags' = EmptyTags
    /\ tags_volume' = EmptyTags
    /\ current_snap' = Listed(current_snap)
    /\ UNCHANGED <<others, vols, idx, count_total, count_success,
                   count_errors, total_deleted, sns_err_msg, todo,
                   pruning, published, exit_status, history>>

\* snapshots = vol.snapshots(); the loop that fills deletelist;
\* deletelist.sort(key=lambda snap: snap.start_time)
Snapshots ==
    /\ pc = "snapshots"
    /\ \E pre \in Existing, order \in {"asc", "desc"} :
          LET new == IF vol \in created THEN <<Listed(current_snap)>>
                     ELSE <<>>
              got == Listing(pre, new, order)
          IN  /\ Len(pre) <= unlisted
              /\ unlisted' = unlisted - Len(pre)
              /\ snapshots' = got
              /\ deletelist' = SortByStartTime(Classify(got, period))
    /\ pc' = "keep"
    /\ UNCHANGED <<config, vols, idx, counters, sns_err_msg, tagging, di,
                   deleted, published, exit_status, history>>

\* vol.snapshots() raises
SnapshotsRaises ==
    /\ pc = "snapshots"
    /\ raised' = raised \cup {vol}
    /\ pc' = "except"
    /\ UNCHANGED <<others, vols, idx, counters, sns_err_msg, tagging,
                   pruning, published, exit_status, create_called, created,
                   inner_failed, deletes>>

\* Where `continue` inside the try body leads: to the next turn of the for
\* loop; the else clause of the try statement is not run
AfterContinue == "for_vol"

\* KeepIsNone as it would be with the absent key read as a keep-count of 0
\* (config.get('keep_' + args.period, 0))
KeepIsNone_AsZero ==
    /\ pc = "keep"
    /\ keep_cfg = None
    /\ deletelist' = Cut(deletelist, 0)
    /\ di' = 1
    /\ pc' = "delete"
    /\ UNCHANGED <<others, vols, idx, counters, sns_err_msg, tagging,
                   snapshots, deleted, published, exit_status, history>>

\* keep is None: logger.info(...); continue
KeepIsNone ==
    /\ pc = "keep"
    /\ keep_cfg = None
    /\ pc' = AfterContinue
    /\ EndOfTurn
    /\ UNCHANGED <<others, vols, idx, counters, sns_err_msg, published,
                   exit_status, history>>

\* delta = len(deletelist) - keep
\* deletelist = deletelist[:delta] if delta > 0 else []
CutDeletelist ==
    /\ pc = "keep"
    /\ keep_cfg # None
    /\ deletelist' = Cut(deletelist, keep_cfg[1])
    /\ di' = 1
    /\ pc' = "delete"
    /\ UNCHANGED <<others, vols, idx, counters, sns_err_msg, tagging,
                   snapshots, deleted, published, exit_status, history>>

\* for snap in deletelist: snap.delete(); total_deleted += 1
Delete ==
    /\ pc = "delete"
    /\ di <= Len(deletelist)
    /\ deleted' = Append(deleted, deletelist[di])
    /\ deletes' = deletes + 1
    /\ total_deleted' = total_deleted + 1
    /\ di' = di + 1
    /\ UNCHANGED <<others, vols, idx, count_total, count_success,
                   count_errors, total_created, sns_err_msg, tagging,
                   snapshots, deletelist, published, exit_status,
                   create_called, created, inner_failed, raised, pc>>

\* snap.delete() raises
DeleteRaises ==
    /\ pc = "delete"
    /\ di <= Len(deletelist)
    /\ raised' = raised \cup {vol}
    /\ pc' = "except"
    /\ UNCHANGED <<others, vols, idx, counters, sns_err_msg, tagging,
                   pruning, published, exit_status, create_called, created,
                   inner_failed, deletes>>

\* the delete loop is exhausted
DeleteEnd ==
    /\ pc = "delete"
    /\ di > Len(deletelist)
    /\ pc' = "sleep"
    /\ UNCHANGED <<others, vols, idx, counters, sns_err_msg, tagging,
                   pruning, published, exit_status, history>>

\* time.sleep(3): the try body ends
Sleep ==
    /\ pc = "sleep"
    /\ pc' = "else"
    /\ UNCHANGED <<others, vols, idx, counters, sns_err_msg, tagging,
                   pruning, published, exit_status, history>>

\* else: count_success += 1
Else ==
    /\ pc = "else"
    /\ count_success' = count_success + 1
    /\ pc' = "for_vol"
    /\ EndOfTurn
    /\ UNCHANGED <<others, vols, idx, count_total, count_errors,
                   total_created, total_deleted, sns_err_msg, published,
                   exit_status, history>>

\* 'Error in processing volume with id: %s\n' % vol.id
ErrorLine(v) == [text |-> "Error in processing volume with id", id |-> v]

\* Except as it would be with the try statement around the whole loop
\* instead of around its body: the first error ends the loop
Except_EndsLoop ==
    /\ pc = "except"
    /\ sns_err_msg' = Append(sns_err_msg, ErrorLine(vol))
    /\ count_errors' = count_errors + 1
    /\ pc' = "report"
    /\ EndOfTurn
    /\ UNCHANGED <<others, vols, idx, count_total, count_success,
                   total_created, total_deleted, published, exit_status,
                   history>>

\* except Exception, e: sns_err_msg += ...; count_errors += 1
Except ==
    /\ pc = "except"
    /\ sns_err_msg' = Append(sns_err_msg, ErrorLine(vol))
    /\ count_errors' = count_errors + 1
    /\ pc' = "for_vol"
    /\ EndOfTurn
    /\ UNCHANGED <<others, vols, idx, count_total, count_success,
                   total_created, total_deleted, published, exit_status,
                   history>>

\* The first line of the error notification
Preamble == [text |-> "Some of the volumes could not be processed", id |-> 0]

\* result = 'Finished taking snapshots ... ' with the counters
Result ==
    [count_success |-> count_success, count_total |-> count_total,
     total_created |-> total_created, total_deleted |-> total_deleted,
     count_errors |-> count_errors]

\* The status the interpreter exits with when the script runs off its
\* last line (the script never calls sys.exit)
StatusAtEnd == "0"

\* SNS reporting, logger.info(result), end of the script
Report ==
    /\ pc = "report"
    /\ IF sns_arn
       THEN IF sns_err_msg # <<>>
            THEN /\ sns_err_msg' = <<Preamble>> \o sns_err_msg
                 /\ published' =
                       <<[subject |-> "Error with AWS Snapshot",
                          body |-> sns_err_msg'],
                         [subject |-> "Finished taking AWS snapshots",
                          body |-> Result]>>
            ELSE /\ published' =
                       <<[subject |-> "Finished taking AWS snapshots",
                          body |-> Result]>>
                 /\ UNCHANGED sns_err_msg
       ELSE UNCHANGED <<sns_err_msg, published>>
    /\ exit_status' = StatusAtEnd
    /\ pc' = "done"
    /\ UNCHANGED <<others, vols, idx, counters, tagging, pruning, history>>

Next ==
    \/ GetAllVolumes
    \/ GetAllVolumesRaises
    \/ ForVol
    \/ ForVolEnd
    \/ GetResourceTags
    \/ GetResourceTagsRaises
    \/ CreateSnapshot
    \/ CreateSnapshotRaises
    \/ SetResourceTag
    \/ AddTagRaises
    \/ SnapshotCreated
    \/ Snapshots
    \/ SnapshotsRaises
    \/ KeepIsNone
    \/ CutDeletelist
    \/ Delete
    \/ DeleteRaises
    \/ DeleteEnd
    \/ Sleep
    \/ Else
    \/ Except
    \/ Report

Spec == Init /\ [][Next]_vars

\* ------------------------------------------------------------------ claims
Max(a, b) == IF a >= b THEN a ELSE b
Min(a, b) == IF a <= b THEN a ELSE b

\* The listed snapshots the classification loop counts to the run's period
OfPeriod == Classify(snapshots, period)

\* The listed snapshots of the period that the provider still holds
Remaining ==
    LET Kept(s) == s \notin Range(deleted)
    IN  SelectSeq(OfPeriod, Kept)

\* The volume at hand is in its retention step: the list is cut, the
\* deletions are under way or done
InRetention == pc \in {"delete", "sleep", "else"}

RetentionDone == pc \in {"sleep", "else"}

\* What the retention step has to do with n snapshots of the period and
\* keep-count k: select max(n - k, 0) of them, all at least as old as every
\* one it keeps, delete them oldest first, and leave min(n, k)
RetentionExact ==
    LET n == Len(OfPeriod)
        k == keep_cfg[1]
    IN  /\ Len(deletelist) = Max(n - k, 0)
        /\ Range(deletelist) \subseteq Range(OfPeriod)
        /\ \A d \in Range(deletelist) :
              \A r \in Range(OfPeriod) \ Range(deletelist) :
                 d.start_time <= r.start_time
        /\ \A i, j \in DOMAIN deletelist :
              i < j => deletelist[i].start_time <= deletelist[j].start_time
        /\ deleted = SubSeq(deletelist, 1, Len(deleted))
        /\ RetentionDone =>
              /\ deleted = deletelist
              /\ Len(Remaining) = Min(n, k)

\* C1: for every keep-count k >= 0 and every volume whose listing holds n
\* snapshots that the classification counts to the run's period, the
\* retention step selects exactly max(n - k, 0) of them, each at least as old
\* as every snapshot it keeps, deletes them in oldest-first order, and when
\* it ends min(n, k) of them remain.
C1_RetentionCount == InRetention => RetentionExact

\* C1 witness: a retention step has ended that deleted two snapshots of
\* different age, the older first, and kept a newer one.
C1_Witness ==
    /\ RetentionDone
    /\ Len(deleted) = 2
    /\ deleted[1].start_time < deleted[2].start_time
    /\ Len(Remaining) = 1

\* A description that starts with the period's frequency label or with the
\* period's own token
OwnPeriod(desc, p) ==
    \/ StartsWith(desc.word, Frequency(p))
    \/ StartsWith(desc.word, p)

\* The snapshots the run has selected for deletion or deleted for the
\* volume at hand
Selected == Range(deletelist) \cup Range(deleted)

\* C2: in a run for period P a snapshot is selected for deletion only if its
\* description starts with P's frequency label or P's legacy token; a
\* snapshot whose description starts with 'daily' or 'day' is never put in
\* the deletion list, and never deleted, by a run for hour, week or month.
C2_OnlyOwnPeriod ==
    \A s \in Selected :
       /\ OwnPeriod(s.description, period)
       /\ StartsWith(s.description.word, S_day) => period = S_day

\* C3: a snapshot whose description does not contain 'taken by the snapshot
\* script' is never put in the deletion list and never deleted, in a run for
\* any period and any keep-count.
C3_OnlyScriptSnapshots ==
    \A s \in Selected : s.description.script

\* C4: when keep_<period> is absent from the configuration, no snapshot of
\* any volume is deleted during the run and total_deleted stays 0.
C4_NoKeepNoDelete ==
    keep_cfg = None => (deleted = <<>> /\ total_deleted = 0)

\* C4 witness: with keep_<period> absent, the first volume was processed
\* without error and the second volume's listing holds two snapshots of the
\* period.
C4_Witness ==
    /\ keep_cfg = None
    /\ pc = "keep"
    /\ idx = 2
    /\ count_errors = 0
    /\ Len(deletelist) >= 2
    /\ total_deleted = 0

\* The volume ids that the error-notification text names
ErrorIds ==
    {l.id : l \in {x \in Range(sns_err_msg) :
                      x.text = "Error in processing volume with id"}}

RunEnded == pc \in {"report", "done"}

\* C5: when the processing of a volume raises, every volume after it in the
\* list is still processed: its snapshot creation is attempted, unless
\* reading that volume's own tags raised before; and the error-notification
\* text names each volume whose processing raised and no other volume.
C5_FailureIsolation ==
    RunEnded =>
       /\ \A i, j \in DOMAIN vols :
             (i < j /\ vols[i] \in raised) =>
                vols[j] \in create_called \cup raised
       /\ ErrorIds = raised

\* C5 witness: the run ended, the first volume raised and the snapshot
\* creation of the second was attempted and it did not raise.
C5_Witness ==
    /\ pc = "done"
    /\ Len(vols) = 2
    /\ raised = {vols[1]}
    /\ vols[2] \in create_called
    /\ ErrorIds = {vols[1]}

\* C6: at the end of every run count_total is the number of volumes listed
\* and count_success + count_errors = count_total, count_success counting
\* the volumes whose processing did not raise.
C6_CountersAddUp ==
    pc = "done" =>
       /\ count_total = Len(vols)
       /\ count_success + count_errors = count_total
       /\ count_success = Cardinality(Range(vols) \ raised)

\* C7: a failure of snapshot creation or of tagging makes the volume a
\* per-volume error: it is counted in count_errors, named in the
\* error-notification text and not counted in count_success.
C7_InnerFailureIsError ==
    pc = "done" =>
       /\ inner_failed \subseteq ErrorIds
       /\ count_errors = Cardinality(inner_failed \cup raised)
       /\ count_success <=
             Cardinality(Range(vols) \ (inner_failed \cup raised))

\* The volume at hand is one whose create_snapshot call raised
CreationFailed ==
    /\ pc \notin {"get_all_volumes", "crashed", "for_vol", "report", "done"}
    /\ vol \in inner_failed \ created

\* C8: when create_snapshot raises for a volume, no tag is applied (the
\* script holds no snapshot and never enters set_resource_tags), the next
\* statement run is the listing of the volume's snapshots, and the retention
\* step selects and deletes the excess oldest snapshots of the period as in
\* any other turn.
C8_FailedCreationStillPrunes ==
    /\ [][(pc = "create_snapshot" /\ pc' # "create_snapshot"
             /\ vol \notin created')
          => (pc' = "snapshots" /\ current_snap' = NoSnap)]_vars
    /\ [](CreationFailed =>
             /\ current_snap = NoSnap
             /\ pc \in {"snapshots", "keep", "delete", "sleep", "else",
                        "except"}
             /\ InRetention => RetentionExact)

\* C8 witness: the creation failed for the volume and its retention step
\* ended after deleting the older of two snapshots of the period.
C8_Witness ==
    /\ CreationFailed
    /\ RetentionDone
    /\ Len(OfPeriod) = 2
    /\ Len(deleted) = 1
    /\ Len(Remaining) = 1

\* C9: the exit status is failure whenever a per-volume error occurred, and
\* success when volumes were found and no error was accumulated.
C9_ExitStatus ==
    pc = "done" =>
       /\ count_errors > 0 => exit_status = "1"
       /\ (Len(vols) > 0 /\ count_errors = 0 /\ sns_err_msg = <<>>)
             => exit_status = "0"

\* C10: when the volume listing returns no volume, the run records an
\* error, publishes an error notification if a channel is configured, and
\* ends with failure status.
C10_NoVolumesIsError ==
    (pc = "done" /\ vols = <<>>) =>
       /\ sns_err_msg # <<>>
       /\ exit_status = "1"
       /\ sns_arn =>
             \E m \in Range(published) : m.subject = "Error with AWS Snapshot"

\* C11: when conn.get_all_volumes raises, the run does not crash: the process
\* never ends at the listing call, and whenever it has exited it has run to
\* its last line, with the summary composed and, when a channel is
\* configured, the notifications published.
C11_ListingErrorHandled ==
    /\ pc # "crashed"
    /\ exit_status # "running" =>
          /\ pc = "done"
          /\ sns_arn => published # <<>>

\* A message with the given subject has been published
Published(subject) == \E m \in Range(published) : m.subject = subject

\* C12: at the end of a run with a channel configured the summary
\* notification has been published, and the error notification has been
\* published if and only if some error occurred in the run, a create_snapshot
\* or add_tag error caught by the inner handler included; with no channel
\* configured nothing has been published.
C12_NotificationDispatch ==
    pc = "done" =>
       IF sns_arn
       THEN /\ Published("Finished taking AWS snapshots")
            /\ Published("Error with AWS Snapshot")
                  <=> (raised \cup inner_failed # {})
       ELSE published = <<>>

\* C13: a turn of set_resource_tags never removes a tag of the snapshot and
\* never changes a tag whose key the volume does not carry; a key it adds or
\* overwrites is a key of the volume, takes the volume's value, and does not
\* start with 'aws:'.
C13_TagMirrorFrame ==
    [][(pc = "set_resource_tags" /\ pc' = "set_resource_tags") =>
          LET old == current_snap.tags
              new == current_snap'.tags
              Touched(k) == IF k \in DOMAIN old THEN new[k] # old[k]
                            ELSE TRUE
          IN  /\ DOMAIN old \subseteq DOMAIN new
              /\ \A k \in DOMAIN new :
                    Touched(k) =>
                       /\ k \in DOMAIN volume_tags
                       /\ new[k] = volume_tags[k]
                       /\ ~StartsWith(k, S_aws)]_vars

\* set_resource_tags has visited every tag of a volume that carries an
\* 'aws:' tag: the snapshot's tag of that key, which differs from the
\* volume's, is as create_snapshot returned it, and the snapshot's Name has
\* been overwritten with the volume's
C13_Witness ==
    /\ pc = "set_resource_tags"
    /\ todo = {}
    /\ K_aws \in DOMAIN volume_tags
    /\ K_aws \in DOMAIN current_snap.tags
    /\ current_snap.tags[K_aws] # volume_tags[K_aws]
    /\ current_snap.tags[K_name] = volume_tags[K_name]

\* The tags of the volume that are missing or different on the snapshot
Pending ==
    {k \in DOMAIN tags_volume : NeedsTag(current_snap.tags, tags_volume, k)}

\* C14: an add_tag call that raises does not end the mirroring: when
\* set_resource_tags is left, at most the one tag whose add_tag raised is
\* still missing or different on the snapshot.
C14_TagFailureNotAborting ==
    [][(pc = "set_resource_tags" /\ pc' # "set_resource_tags") =>
          Cardinality(Pending) <= 1]_vars

\* What vol.snapshots() holds after the deletions made so far
LeftAfterPass ==
    LET Kept(s) == s \notin Range(deleted)
    IN  SelectSeq(snapshots, Kept)

\* The deletion list the retention step computes from a listing
Selection(listing) ==
    Cut(SortByStartTime(Classify(listing, period)), keep_cfg[1])

\* C15: when the delete loop of a volume has ended, the retention step
\* applied to the snapshots that are left, with the same period and
\* keep-count and in whatever order the provider lists them, selects nothing,
\* and the snapshots of the period that are left are min(n, k).
C15_SelectionIdempotent ==
    RetentionDone =>
       /\ Selection(LeftAfterPass) = <<>>
       /\ Selection(Reverse(LeftAfterPass)) = <<>>
       /\ Len(Classify(LeftAfterPass, period))
             = Min(Len(OfPeriod), keep_cfg[1])

\* A delete loop has ended that deleted two snapshots and left one, with a
\* keep-count of 1
C15_Witness ==
    /\ RetentionDone
    /\ keep_cfg = <<1>>
    /\ Len(deleted) = 2
    /\ Len(Classify(LeftAfterPass, period)) = 1

\* C16: the deletion list is in ascending order of start_time with equal
\* start_times in ascending order of snapshot id, and the retention step
\* selects the same snapshots from the provider's listing taken in the
\* opposite order.
C16_DeterministicSelection ==
    InRetention =>
       /\ \A i, j \in DOMAIN deletelist :
             i < j =>
                \/ deletelist[i].start_time < deletelist[j].start_time
                \/ /\ deletelist[i].start_time = deletelist[j].start_time
                   /\ deletelist[i].id < deletelist[j].id
       /\ Range(Selection(Reverse(snapshots))) = Range(deletelist)

\* C17: at the end of a run total_created is the number of create_snapshot
\* calls that returned a snapshot, and total_deleted is the number of
\* snap.delete() calls that returned.
C17_TotalsMatchProvider ==
    pc = "done" =>
       /\ total_created = Cardinality(created)
       /\ total_deleted = deletes

\* C18: with a keep-count of at least 1, the snapshot create_snapshot
\* returned for the volume at hand is in the listing and is neither selected
\* for deletion nor deleted, however many older snapshots are listed.
C18_NewSnapshotKept ==
    (InRetention /\ keep_cfg[1] >= 1 /\ vol \in created) =>
       /\ current_snap \in Range(snapshots)
       /\ current_snap \notin Range(deletelist) \cup Range(deleted)

\* The delete loop has ended for a volume with two older snapshots of the
\* period and a keep-count of 1: both older ones are deleted, the new one is
\* the one that remains
C18_Witness ==
    /\ RetentionDone
    /\ keep_cfg = <<1>>
    /\ vol \in created
    /\ Len(deleted) = 2
    /\ Remaining = <<current_snap>>

\* C19: when the turn of a volume that is not the last one ends, by whatever
\* path, time.sleep has been taken in that turn: the loop goes on to the next
\* volume only from the statement that follows the sleep, and that statement
\* is reached only through the sleep.
C19_DelayBetweenVolumes ==
    [][/\ (pc # "for_vol" /\ pc' = "for_vol" /\ idx >= 1
             /\ idx < Len(vols)) => pc = "else"
       /\ (pc # "else" /\ pc' = "else") => pc = "sleep"]_vars

=============================================================================
